---- MODULE Spec2Model ----
(***************************************************************************)
(* A model of sortphotos.py: the EXIF timestamp parser, the oldest-        *)
(* timestamp selector, the early-morning adjustment and the sortPhotos     *)
(* batch (scanning, per-file loop, cleanup) over an abstract filesystem.   *)
(*                                                                         *)
(* Python strings are modelled as sequences of one-character strings so    *)
(* that split, strip, int and fnmatch are computed character by character. *)
(* A datetime is the pair (proleptic Gregorian ordinal, second of the day),*)
(* which is how datetime itself orders and adds.                           *)
(***************************************************************************)
EXTENDS Integers, Sequences, FiniteSets, TLC

VARIABLES
    pc,            \* position in the entry point a run exercises
    date_string,   \* parse_date_exif: the raw tag value
    comp,          \* the numeric components date_string was written from
    parsed,        \* parse_date_exif: what it returned
    data,          \* get_oldest_timestamp: one file's metadata record
    additional_groups_to_ignore,
    additional_tags_to_ignore,
    now,           \* what datetime.now() returns
    oldest,        \* get_oldest_timestamp: what it returned
    photo_date,    \* check_for_early_morning_photos: the datetime passed
    day_begins,
    adjusted,      \* check_for_early_morning_photos: what it returned
    \* sortPhotos: its arguments
    test, copy_files, remove_duplicates, recursive,
    ignore_list, remove_ignored_files, remove_empty_dirs, rename_format,
    \* sortPhotos: the filesystem and the locals that live across the loop
    fs,            \* [dirs: the directories, files: path -> file]
    metadata,      \* the records ExifTool returned
    idx,           \* how many records the loop has gone through
    test_file_dict,
    \* history, for stating properties
    fs0,           \* the filesystem when sortPhotos was called
    prev,          \* filesystem and test_file_dict before the latest step
    placements,    \* per file placed: src_file, first and final dest_file
    \* sortPhotos: the tags and groups to use only
    use_only_tags, use_only_groups,
    \* run_stdin_watcher
    file_present,  \* the announced files since the last pass that returned
    status,        \* the exit status of the process once it has exited
    \* history, for stating properties
    first_run,     \* placements and filesystem at the end of an earlier run
    passes         \* the passes started since the latest announcement

parseVars == <<date_string, comp, parsed>>
selectVars == <<data, oldest>>
policyVars == <<additional_groups_to_ignore, additional_tags_to_ignore, now>>
adjustVars == <<photo_date, adjusted>>
argVars == <<test, copy_files, remove_duplicates, recursive, ignore_list,
             remove_ignored_files, remove_empty_dirs, rename_format>>
batchVars == <<fs, metadata, idx, test_file_dict, fs0, prev, placements>>
useOnlyVars == <<use_only_tags, use_only_groups>>
watchVars == <<file_present, status, passes>>
vars == <<pc, parseVars, selectVars, policyVars, adjustVars, day_begins,
          argVars, batchVars, useOnlyVars, watchVars, first_run>>

\* ------------------------------------------------------------------ text

Digits == <<"0", "1", "2", "3", "4", "5", "6", "7", "8", "9">>

\* The characters used, in code point order (Python compares strings by
\* code point).
CodeOrder ==
    <<" ", "*", "+", ",", "-", ".", "/",
      "0", "1", "2", "3", "4", "5", "6", "7", "8", "9", ":", "?",
      "A", "C", "D", "E", "F", "G", "H", "I", "M", "P", "Q", "S", "T", "W", "X", "Z",
      "_", "a", "b", "c", "d", "e", "f", "g", "h", "i", "j", "k", "l", "m",
      "n", "o", "p", "q", "r", "s", "t", "u", "v", "w", "x", "y", "z">>

Ord(c) == CHOOSE i \in 1..Len(CodeOrder) : CodeOrder[i] = c

IsDigit(c) == \E i \in 1..10 : Digits[i] = c

DigitVal(c) == (CHOOSE i \in 1..10 : Digits[i] = c) - 1

\* str > str: lexicographic by code point, a proper prefix being smaller.
RECURSIVE StrGt(_, _)
StrGt(a, b) ==
    IF a = <<>> THEN FALSE
    ELSE IF b = <<>> THEN TRUE
    ELSE IF Head(a) # Head(b) THEN Ord(Head(a)) > Ord(Head(b))
    ELSE StrGt(Tail(a), Tail(b))

\* s.split(sep) for a one-character sep: empty pieces are kept.
RECURSIVE SplitOn(_, _)
SplitOn(s, sep) ==
    IF \A i \in 1..Len(s) : s[i] # sep THEN <<s>>
    ELSE LET i == CHOOSE j \in 1..Len(s) :
                      s[j] = sep /\ \A k \in 1..(j - 1) : s[k] # sep
         IN  <<SubSeq(s, 1, i - 1)>> \o SplitOn(SubSeq(s, i + 1, Len(s)), sep)

\* s.split(): pieces between runs of blanks, no empty piece.
RECURSIVE SplitBlank(_)
SplitBlank(s) ==
    IF s = <<>> THEN <<>>
    ELSE IF Head(s) = " " THEN SplitBlank(Tail(s))
    ELSE IF \A i \in 1..Len(s) : s[i] # " " THEN <<s>>
    ELSE LET i == CHOOSE j \in 1..Len(s) :
                      s[j] = " " /\ \A k \in 1..(j - 1) : s[k] # " "
         IN  <<SubSeq(s, 1, i - 1)>> \o SplitBlank(SubSeq(s, i + 1, Len(s)))

\* ''.join(pieces)
RECURSIVE Join(_)
Join(pieces) ==
    IF pieces = <<>> THEN <<>> ELSE Head(pieces) \o Join(Tail(pieces))

\* str(n) for n >= 0
RECURSIVE NatStr(_)
NatStr(n) ==
    IF n < 10 THEN <<Digits[n + 1]>> ELSE NatStr(n \div 10) \o <<Digits[(n % 10) + 1]>>

\* re.split('(\+|-|Z)', s): the pieces with the separators between them.
RECURSIVE ReSplitTz(_)
ReSplitTz(s) ==
    LET isSep(c) == c \in {"+", "-", "Z"}
    IN  IF \A i \in 1..Len(s) : ~isSep(s[i]) THEN <<s>>
        ELSE LET i == CHOOSE j \in 1..Len(s) :
                          isSep(s[j]) /\ \A k \in 1..(j - 1) : ~isSep(s[k])
             IN  <<SubSeq(s, 1, i - 1), <<s[i]>>>>
                     \o ReSplitTz(SubSeq(s, i + 1, Len(s)))

\* int(s) is defined for an optional sign followed by one or more digits;
\* on anything else int raises ValueError.
IntOk(s) ==
    LET body == IF s # <<>> /\ Head(s) \in {"+", "-"} THEN Tail(s) ELSE s
    IN  body # <<>> /\ \A i \in 1..Len(body) : IsDigit(body[i])

RECURSIVE NatOf(_)
NatOf(s) ==
    IF s = <<>> THEN 0 ELSE 10 * NatOf(SubSeq(s, 1, Len(s) - 1)) + DigitVal(s[Len(s)])

IntOf(s) ==
    IF Head(s) = "-" THEN 0 - NatOf(Tail(s))
    ELSE IF Head(s) = "+" THEN NatOf(Tail(s))
    ELSE NatOf(s)

\* ------------------------------------------------------------ datetime

IsLeap(y) == y % 4 = 0 /\ (y % 100 # 0 \/ y % 400 = 0)

DaysInMonth(y, m) ==
    IF m = 2 THEN (IF IsLeap(y) THEN 29 ELSE 28)
    ELSE IF m \in {4, 6, 9, 11} THEN 30 ELSE 31

DaysBeforeYear(y) ==
    LET p == y - 1 IN p * 365 + p \div 4 - p \div 100 + p \div 400

RECURSIVE DaysBeforeMonth(_, _)
DaysBeforeMonth(y, m) ==
    IF m = 1 THEN 0 ELSE DaysBeforeMonth(y, m - 1) + DaysInMonth(y, m - 1)

\* date.toordinal(): 1 is 0001-01-01.
Ymd2Ord(y, m, d) == DaysBeforeYear(y) + DaysBeforeMonth(y, m) + d

\* datetime.max is 9999-12-31.
MaxOrd == Ymd2Ord(9999, 12, 31)

\* date.fromordinal(n) as year, month, day.
Ord2Ymd(n) ==
    LET n0   == n - 1
        n400 == n0 \div 146097
        r400 == n0 % 146097
        n100 == r400 \div 36524
        r100 == r400 % 36524
        n4   == r100 \div 1461
        r4   == r100 % 1461
        n1   == r4 \div 365
        r1   == r4 % 365
        year == n400 * 400 + n100 * 100 + n4 * 4 + n1 + 1
    IN  IF n1 = 4 \/ n100 = 4 THEN [year |-> year - 1, month |-> 12, day |-> 31]
        ELSE LET month == CHOOSE m \in 1..12 :
                              /\ DaysBeforeMonth(year, m) <= r1
                              /\ r1 < DaysBeforeMonth(year, m) + DaysInMonth(year, m)
             IN  [year |-> year, month |-> month,
                  day |-> r1 - DaysBeforeMonth(year, month) + 1]

\* What a call yields: a datetime, None, or an exception that propagates.
\* us is the microsecond, which only datetime.now() sets.
DateTime(ord, sec) == [k |-> "datetime", d |-> ord, s |-> sec, us |-> 0]
None == [k |-> "None", d |-> 0, s |-> 0, us |-> 0]
Raised == [k |-> "raise", d |-> 0, s |-> 0, us |-> 0]

IsDateTime(v) == v.k = "datetime"

\* datetime(year, month, day, hour, minute, second) is constructible.
DateTimeOk(year, month, day, hour, minute, second) ==
    /\ year \in 1..9999
    /\ month \in 1..12
    /\ day \in 1..DaysInMonth(year, month)
    /\ hour \in 0..23
    /\ minute \in 0..59
    /\ second \in 0..59

\* date + timedelta(seconds = delta); OverflowError outside datetime.min..datetime.max.
AddSeconds(date, delta) ==
    LET total == date.s + delta
        sec   == total % 86400
        ord   == date.d + (total - sec) \div 86400
    IN  IF ord < 1 \/ ord > MaxOrd THEN Raised
        ELSE [k |-> "datetime", d |-> ord, s |-> sec, us |-> date.us]

Hour(date) == date.s \div 3600

\* date < other
DateLt(a, b) ==
    \/ a.d < b.d
    \/ a.d = b.d /\ a.s < b.s
    \/ a.d = b.d /\ a.s = b.s /\ a.us < b.us

\* ------------------------------------------------------ parse_date_exif

\* int() of hour, minute and second, or its ValueError.
HourMinSec(h, m, sec) ==
    IF IntOk(h) /\ IntOk(m) /\ IntOk(sec)
    THEN [ok |-> TRUE, hour |-> IntOf(h), minute |-> IntOf(m), second |-> IntOf(sec)]
    ELSE [ok |-> FALSE, hour |-> 0, minute |-> 0, second |-> 0]

\* Lines 69-75; a time token of two parts leaves second = 0, any other
\* than two or three parts leaves the defaults of lines 61-63.
ParseTime(time) ==
    IF Len(time) \in {2, 3}
    THEN HourMinSec(time[1], time[2],
                    IF Len(time) = 3 THEN SplitOn(time[3], ".")[1] ELSE <<"0">>)
    ELSE [ok |-> TRUE, hour |-> 12, minute |-> 0, second |-> 0]

\* dateadd in seconds: the sign is applied to the hours only.
DateAdd(sign, time_zone_hour, time_zone_min) ==
    (IF sign = <<"-">> THEN time_zone_hour * (0 - 1) ELSE time_zone_hour) * 3600
        + time_zone_min * 60

TzDateAdd(sign, time_zone) == DateAdd(sign, IntOf(time_zone[1]), IntOf(time_zone[2]))

\* Lines 79-90 on the split time zone.
ZoneOf(sign, time_zone) ==
    IF Len(time_zone) = 2 THEN
        IF IntOk(time_zone[1]) /\ IntOk(time_zone[2])
        THEN [ok |-> TRUE, adjust |-> TRUE, dateadd |-> TzDateAdd(sign, time_zone)]
        ELSE [ok |-> FALSE, adjust |-> FALSE, dateadd |-> 0]
    ELSE [ok |-> TRUE, adjust |-> FALSE, dateadd |-> 0]

\* The time-zone part of the time token:
\* time_zone_adjust, dateadd, or a ValueError from int().
ParseZone(time_entries) ==
    IF Len(time_entries) > 2
    THEN ZoneOf(time_entries[2], SplitOn(time_entries[3], ":"))
    ELSE [ok |-> TRUE, adjust |-> FALSE, dateadd |-> 0]

\* Lines 93-109: the date object, moved by dateadd when time_zone_adjust.
FormDate(date, zone) == IF zone.adjust THEN AddSeconds(date, zone.dateadd) ELSE date

\* Lines 93-109, or the ValueError of an int() of lines 70-83.
DateOf(year, month, day, tm, zone) ==
    IF ~tm.ok \/ ~zone.ok THEN Raised
    ELSE IF ~DateTimeOk(year, month, day, tm.hour, tm.minute, tm.second) THEN None
    ELSE FormDate(DateTime(Ymd2Ord(year, month, day),
                           tm.hour * 3600 + tm.minute * 60 + tm.second),
                  zone)

\* Lines 66-90: the time token elements[1], split at its time zone.
WithTime(year, month, day, time_entries) ==
    DateOf(year, month, day, ParseTime(SplitOn(time_entries[1], ":")),
           ParseZone(time_entries))

\* Lines 60-109
TimeOf(year, month, day, elements) ==
    IF Len(elements) > 1 THEN WithTime(year, month, day, ReSplitTz(elements[2]))
    ELSE DateOf(year, month, day,
                [ok |-> TRUE, hour |-> 12, minute |-> 0, second |-> 0],
                [ok |-> TRUE, adjust |-> FALSE, dateadd |-> 0])

\* Lines 52-109: year, month and day of date_entries, then the time.
DateEntries(elements, date_entries, joined) ==
    IF ~(/\ Len(date_entries) = 3
         /\ StrGt(date_entries[1], <<"0", "0", "0", "0">>)
         /\ \A i \in 1..Len(joined) : joined[i] # "."
         /\ Len(date_entries[1]) = 4)
    THEN None
    ELSE IF ~(IntOk(date_entries[1]) /\ IntOk(date_entries[2])
                                     /\ IntOk(date_entries[3]))
    THEN Raised
    ELSE TimeOf(IntOf(date_entries[1]), IntOf(date_entries[2]),
                IntOf(date_entries[3]), elements)

\* Lines 45-109
Elements(elements, date_entries) ==
    IF Len(elements) < 1 THEN None
    ELSE DateEntries(elements, date_entries, Join(date_entries))

FirstOf(elements) == IF Len(elements) < 1 THEN <<>> ELSE elements[1]

SplitDate(elements) == Elements(elements, SplitOn(FirstOf(elements), ":"))

parse_date_exif(raw) == SplitDate(SplitBlank(raw))

\* ----------------------------------------------- writing a tag value

\* '%02d' % n and '%04d' % n
Fmt2(n) == <<Digits[((n \div 10) % 10) + 1], Digits[(n % 10) + 1]>>
Fmt4(n) ==
    <<Digits[((n \div 1000) % 10) + 1], Digits[((n \div 100) % 10) + 1]>> \o Fmt2(n)

FmtDate(y, m, d) == Fmt4(y) \o <<":">> \o Fmt2(m) \o <<":">> \o Fmt2(d)
FmtTime(h, mi, s) == Fmt2(h) \o <<":">> \o Fmt2(mi) \o <<":">> \o Fmt2(s)
FmtZone(sign, h, mi) ==
    IF sign = "Z" THEN <<"Z">>
    ELSE IF sign = "" THEN <<>>
    ELSE <<sign>> \o Fmt2(h) \o <<":">> \o Fmt2(mi)

\* 'YYYY:MM:DD HH:MM:SS' followed by the zone suffix.
FmtExif(c) ==
    FmtDate(c.year, c.month, c.day) \o <<" ">> \o FmtTime(c.hour, c.minute, c.second)
        \o FmtZone(c.sign, c.tzh, c.tzm)

\* ------------------------------------------------- get_oldest_timestamp

\* A metadata record is the sequence of its (key, value) entries in the
\* order data.keys() yields them. A value is a string or a list of strings.
Str(s) == [isList |-> FALSE, items |-> <<s>>]
List(ss) == [isList |-> TRUE, items |-> ss]
Entry(key, value) == [key |-> key, value |-> value]

\* sub in s
Contains(s, sub) ==
    \E i \in 1..(Len(s) - Len(sub) + 1) : SubSeq(s, i, i + Len(sub) - 1) = sub

K_SourceFile == <<"S", "o", "u", "r", "c", "e", "F", "i", "l", "e">>
K_HistoryWhen == <<"X", "M", "P", ":", "H", "i", "s", "t", "o", "r", "y", "W", "h", "e", "n">>
G_ICC_Profile == <<"I", "C", "C", "_", "P", "r", "o", "f", "i", "l", "e">>
GPS == <<"G", "P", "S">>

\* data[key] for a key the record holds (KeyError otherwise).
Lookup(rec, key) ==
    rec[CHOOSE i \in 1..Len(rec) : rec[i].key = key].value

\* As KeyIsRead, without the test for GPS in the key.
KeyIsReadGpsToo(key, ignore_groups, ignore_tags) ==
    /\ key \notin ignore_tags
    /\ SplitOn(key, ":")[1] \notin ignore_groups

\* The test of line 136: the key is one to read a date from.
KeyIsRead(key, ignore_groups, ignore_tags) ==
    /\ key \notin ignore_tags
    /\ SplitOn(key, ":")[1] \notin ignore_groups
    /\ ~Contains(key, GPS)

\* Lines 148-154; the ValueError of parse_date_exif ends the loop.
Compare(acc, key, exifdate) ==
    IF exifdate = Raised THEN [acc EXCEPT !.raised = TRUE]
    ELSE IF IsDateTime(exifdate) /\ DateLt(exifdate, acc.oldest_date)
    THEN [acc EXCEPT !.date_available = TRUE, !.oldest_date = exifdate,
                     !.oldest_keys = <<key>>]
    ELSE IF IsDateTime(exifdate) /\ exifdate = acc.oldest_date
    THEN [acc EXCEPT !.oldest_keys = Append(acc.oldest_keys, key)]
    ELSE acc

\* One pass of the loop over data.keys().
OldestStep(acc, entry, ignore_groups, ignore_tags) ==
    IF acc.raised \/ ~KeyIsRead(entry.key, ignore_groups, ignore_tags) THEN acc
    ELSE Compare(acc, entry.key, parse_date_exif(entry.value.items[1]))

RECURSIVE OldestLoop(_, _, _, _)
OldestLoop(acc, rest, ignore_groups, ignore_tags) ==
    IF rest = <<>> THEN acc
    ELSE OldestLoop(OldestStep(acc, Head(rest), ignore_groups, ignore_tags),
                    Tail(rest), ignore_groups, ignore_tags)

\* Lines 156-162: src_file, oldest_date, oldest_keys; k is "raise" when the
\* ValueError of a parse_date_exif call propagates.
Returned(rec, acc) ==
    [k |-> IF acc.raised THEN "raise" ELSE "return",
     src_file |-> Lookup(rec, K_SourceFile).items[1],
     date |-> IF acc.date_available THEN acc.oldest_date ELSE None,
     keys |-> acc.oldest_keys]

get_oldest_timestamp(rec, groups_to_ignore, tags_to_ignore, clock) ==
    Returned(rec,
             OldestLoop([date_available |-> FALSE, oldest_date |-> clock,
                         oldest_keys |-> <<>>, raised |-> FALSE],
                        rec,
                        {G_ICC_Profile} \cup groups_to_ignore,
                        {K_SourceFile, K_HistoryWhen} \cup tags_to_ignore))

\* --------------------------------------- check_for_early_morning_photos

\* As check_for_early_morning_photos, with timedelta(hours=date.hour).
early_morning_whole_hours(d, begins) ==
    IF Hour(d) < begins THEN AddSeconds(d, 0 - Hour(d) * 3600) ELSE d

check_for_early_morning_photos(d, begins) ==
    IF Hour(d) < begins THEN AddSeconds(d, 0 - (Hour(d) + 1) * 3600) ELSE d

\* ------------------------------------------------------------ strftime

MonthAbbr ==
    << <<"J", "a", "n">>, <<"F", "e", "b">>, <<"M", "a", "r">>, <<"A", "p", "r">>,
       <<"M", "a", "y">>, <<"J", "u", "n">>, <<"J", "u", "l">>, <<"A", "u", "g">>,
       <<"S", "e", "p">>, <<"O", "c", "t">>, <<"N", "o", "v">>, <<"D", "e", "c">> >>

\* One directive of date.strftime (C locale).
Directive(c, d) ==
    LET ymd == Ord2Ymd(d.d)
    IN  CASE c = "Y" -> Fmt4(ymd.year)
          [] c = "m" -> Fmt2(ymd.month)
          [] c = "d" -> Fmt2(ymd.day)
          [] c = "b" -> MonthAbbr[ymd.month]
          [] c = "H" -> Fmt2(d.s \div 3600)
          [] c = "M" -> Fmt2((d.s % 3600) \div 60)
          [] c = "S" -> Fmt2(d.s % 60)
          [] OTHER   -> <<"%", c>>

RECURSIVE strftime(_, _)
strftime(d, format) ==
    IF format = <<>> THEN <<>>
    ELSE IF Head(format) = "%" /\ Len(format) > 1
         THEN Directive(format[2], d) \o strftime(d, Tail(Tail(format)))
         ELSE <<Head(format)>> \o strftime(d, Tail(format))

\* ---------------------------------------------------------- filesystem

\* A path is the sequence of its components; a name is a string.
PathJoin(path, name) == Append(path, name)
Basename(path) == path[Len(path)]
Dirname(path) == SubSeq(path, 1, Len(path) - 1)
IsUnder(path, top) == Len(path) > Len(top) /\ SubSeq(path, 1, Len(top)) = top

\* os.path.splitext of a name: the extension starts at the last dot that
\* has a character other than a dot before it.
SplitExt(name) ==
    LET dots == {i \in 1..Len(name) : name[i] = "." /\ \E j \in 1..(i - 1) : name[j] # "."}
    IN  IF dots = {} THEN [root |-> name, ext |-> <<>>]
        ELSE LET i == CHOOSE j \in dots : \A k \in dots : k <= j
             IN  [root |-> SubSeq(name, 1, i - 1), ext |-> SubSeq(name, i, Len(name))]

\* fnmatch.fnmatch(name, pat) with the wildcards * and ?.
RECURSIVE fnmatch(_, _)
fnmatch(name, pat) ==
    IF pat = <<>> THEN name = <<>>
    ELSE IF Head(pat) = "*"
         THEN fnmatch(name, Tail(pat)) \/ (name # <<>> /\ fnmatch(Tail(name), pat))
    ELSE IF Head(pat) = "?" THEN name # <<>> /\ fnmatch(Tail(name), Tail(pat))
    ELSE name # <<>> /\ Head(name) = Head(pat) /\ fnmatch(Tail(name), Tail(pat))

\* A file is its content c and its modification time m. Size is the length
\* of a content: contents 1 and 2 are different bytes of one length.
Size(c) == IF c \in {1, 2} THEN 10 ELSE 10 + c

Put(f, key, v) == [q \in DOMAIN f \cup {key} |-> IF q = key THEN v ELSE f[q]]
Del(f, key) == [q \in DOMAIN f \ {key} |-> f[q]]

isfile(st, path) == path \in DOMAIN st.files
exists(st, path) == path \in st.dirs \/ path \in DOMAIN st.files

Raise(st) == [st EXCEPT !.raised = TRUE]

\* os.makedirs(path): the directory and every missing parent.
makedirs(st, path) ==
    [st EXCEPT !.dirs = @ \cup {SubSeq(path, 1, n) : n \in 1..Len(path)}]

\* os.remove(path): FileNotFoundError when there is no such file.
os_remove(st, path) ==
    IF isfile(st, path) THEN [st EXCEPT !.files = Del(@, path)] ELSE Raise(st)

\* os.rmdir(path): OSError when the directory is not empty.
os_rmdir(st, path) ==
    IF /\ path \in st.dirs
       /\ \A q \in st.dirs \cup DOMAIN st.files : ~IsUnder(q, path)
    THEN [st EXCEPT !.dirs = @ \ {path}]
    ELSE Raise(st)

\* shutil.copy2(src, dst): content and modification time, onto dst.
copy2(st, src, dst) ==
    IF isfile(st, src) /\ Dirname(dst) \in st.dirs
    THEN [st EXCEPT !.files = Put(@, dst, st.files[src])]
    ELSE Raise(st)

\* shutil.move(src, dst) to a path that is no directory: os.rename, which
\* replaces a file at dst.
move(st, src, dst) ==
    IF isfile(st, src) /\ Dirname(dst) \in st.dirs
    THEN [st EXCEPT !.files = Put(Del(@, src), dst, st.files[src])]
    ELSE Raise(st)

\* A comparison of the os.stat signatures alone.
filecmp_signatures(st, f1, f2) ==
    /\ Size(st.files[f1].c) = Size(st.files[f2].c)
    /\ st.files[f1].m = st.files[f2].m

\* filecmp.cmp(f1, f2), shallow=True as the call leaves it: files whose
\* os.stat signatures (size, mtime) are equal are taken to be equal without
\* being read; otherwise sizes, then contents, are compared.
filecmp_cmp(st, f1, f2) ==
    LET a == st.files[f1]
        b == st.files[f2]
    IN  IF Size(a.c) = Size(b.c) /\ a.m = b.m THEN TRUE
        ELSE IF Size(a.c) # Size(b.c) THEN FALSE
        ELSE a.c = b.c

\* ---------------------------------------------------------- sortPhotos

\* An optional string argument: None or a string.
NoneStr == [none |-> TRUE, s |-> <<>>]
Some(s) == [none |-> FALSE, s |-> s]

src_dir == << <<"s">> >>
dest_dir == << <<"d">> >>

\* --sort, the default '%Y/%m-%b'
sort_format == <<"%", "Y", "/", "%", "m", "-", "%", "b">>

\* The tags ExifTool reads from a content. Contents 1, 2, 3 and 6 are photos
\* taken at 10:30 on 2020-03-01, content 4 one taken at 02:30 that day,
\* content 5 holds no date.
K_CreateDate ==
    <<"E", "X", "I", "F", ":", "C", "r", "e", "a", "t", "e", "D", "a", "t", "e">>
K_FileModify ==
    <<"F", "i", "l", "e", ":", "F", "i", "l", "e", "M", "o", "d", "i", "f", "y",
      "D", "a", "t", "e">>
G_File == <<"F", "i", "l", "e">>

TagsOf(c) ==
    IF c = 5 THEN <<>>
    ELSE <<Entry(K_CreateDate,
                 Str(FmtDate(2020, 3, 1) \o <<" ">>
                         \o FmtTime(IF c = 4 THEN 2 ELSE 10, 30, 0))),
           Entry(K_FileModify,
                 Str(FmtDate(2020, 2, 1) \o <<" ">> \o FmtTime(8, 0, 0)))>>

\* The source files a run may find, in the order ExifTool lists them.
N_a == <<"a", ".", "j", "p", "g">>
N_x == <<"x", ".", "d", "b">>
N_h == <<".", "h", ".", "j", "p", "g">>
D_A == PathJoin(src_dir, <<"A">>)
D_B == PathJoin(D_A, <<"B">>)

SourcePaths ==
    <<PathJoin(src_dir, N_a), PathJoin(src_dir, N_x), PathJoin(src_dir, N_h),
      PathJoin(D_A, N_a), PathJoin(D_B, N_a)>>

\* ExifTool.get_metadata: one record per file of src_dir (of its subtree
\* with -r), SourceFile first.
RECURSIVE RecordsOf(_, _, _)
RecordsOf(st, paths, rec) ==
    IF paths = <<>> THEN <<>>
    ELSE LET path == Head(paths)
             rest == RecordsOf(st, Tail(paths), rec)
         IN  IF isfile(st, path) /\ (rec \/ Dirname(path) = src_dir)
             THEN << <<Entry(K_SourceFile, Str(path))>> \o TagsOf(st.files[path].c) >>
                      \o rest
             ELSE rest

get_metadata(st, rec) == RecordsOf(st, SourcePaths, rec)

\* ignore_list.split(',')
Filters(a) == SplitOn(a.ignore_list.s, ",")

\* The first filter the name matches decides (lines 308-315).
MatchesAny(name, filters) == \E i \in 1..Len(filters) : fnmatch(name, filters[i])

\* Lines 305-315: every file under src_dir that matches a filter is removed.
PreDelete(st, a) ==
    IF a.test THEN st
    ELSE [st EXCEPT !.files =
             [q \in {f \in DOMAIN st.files :
                        ~(IsUnder(f, src_dir) /\ MatchesAny(Basename(f), Filters(a)))}
                 |-> st.files[q]]]

\* Lines 360-368: each filter the name matches removes the file when asked
\* to; the continue goes on to the next filter.
RECURSIVE FilterLoop(_, _, _, _)
FilterLoop(st, a, filters, src_file) ==
    IF filters = <<>> \/ st.raised THEN st
    ELSE LET after ==
                 IF /\ fnmatch(Basename(src_file), Head(filters))
                    /\ a.remove_ignored_files
                    /\ ~a.test
                 THEN os_remove(st, src_file)
                 ELSE st
         IN  FilterLoop(after, a, Tail(filters), src_file)

IgnoreFilter(st, a, src_file) ==
    IF a.ignore_list.none THEN st ELSE FilterLoop(st, a, Filters(a), src_file)

\* No name is that of a hidden file.
IsHiddenNever(src_file) == FALSE

\* Line 371
IsHidden(src_file) == Basename(src_file) # <<>> /\ Head(Basename(src_file)) = "."

\* Lines 384-391: the folders of the date, created when missing.
DestFolder(d) == dest_dir \o SplitOn(strftime(d, sort_format), "/")

RECURSIVE MakeFolders(_, _, _)
MakeFolders(st, dest_file, dirs) ==
    IF dirs = <<>> THEN st
    ELSE LET folder == PathJoin(dest_file, Head(dirs))
         IN  MakeFolders(IF exists(st, folder) THEN st ELSE makedirs(st, folder),
                         folder, Tail(dirs))

\* Lines 394-402
DestName(a, src_file, d) ==
    IF a.rename_format.none THEN Basename(src_file)
    ELSE strftime(d, a.rename_format.s) \o SplitExt(Basename(src_file)).ext

\* root + '_' + str(append) + ext
Suffixed(dest_file, append) ==
    LET parts == SplitExt(Basename(dest_file))
    IN  PathJoin(Dirname(dest_file),
                 parts.root \o <<"_">> \o NatStr(append) \o parts.ext)

\* Lines 417-445: the collision loop, entered with dest_file = first and
\* append = 1. Yields the final dest_file and fileIsIdentical; raised when
\* filecmp.cmp finds one of its files missing.
RECURSIVE CollisionLoop(_, _, _, _, _, _)
CollisionLoop(st, a, src_file, first, dest_file, append) ==
    LET taken == IF a.test THEN dest_file \in DOMAIN st.test_file_dict
                 ELSE isfile(st, dest_file)
        dest_compare == IF a.test THEN st.test_file_dict[dest_file] ELSE dest_file
    IN  IF ~taken
        THEN [dest_file |-> dest_file, fileIsIdentical |-> FALSE, raised |-> FALSE]
        ELSE IF a.remove_duplicates /\ ~(isfile(st, src_file) /\ isfile(st, dest_compare))
        THEN [dest_file |-> dest_file, fileIsIdentical |-> FALSE, raised |-> TRUE]
        ELSE IF a.remove_duplicates /\ filecmp_cmp(st, src_file, dest_compare)
        THEN [dest_file |-> dest_file, fileIsIdentical |-> TRUE, raised |-> FALSE]
        ELSE CollisionLoop(st, a, src_file, first, Suffixed(first, append), append + 1)

\* Lines 448-460
FinalAction(st, a, src_file, dest_file, fileIsIdentical) ==
    IF a.test
    THEN [st EXCEPT !.test_file_dict = Put(@, dest_file, src_file)]
    ELSE IF a.copy_files
    THEN (IF fileIsIdentical THEN st ELSE copy2(st, src_file, dest_file))
    ELSE move(st, src_file, dest_file)

\* The file is counted as sorted unless its move or copy raised.
Sorted(st2, src_file, first, c) ==
    IF st2.raised THEN st2
    ELSE [st2 EXCEPT !.placed =
             Append(@, [src_file |-> src_file, first |-> first,
                        dest_file |-> c.dest_file,
                        fileIsIdentical |-> c.fileIsIdentical])]

\* Lines 448-460 with the outcome c of the collision loop.
Finally(st1, a, src_file, first, c) ==
    IF c.raised THEN Raise(st1)
    ELSE Sorted(FinalAction(st1, a, src_file, c.dest_file, c.fileIsIdentical),
                src_file, first, c)

\* Lines 417-460 with dest_file = first as line 405 left it.
PlaceAt(st1, a, src_file, first) ==
    Finally(st1, a, src_file, first, CollisionLoop(st1, a, src_file, first, first, 1))

\* Lines 384-460 with the date as line 381 left it.
PlaceOn(st, a, src_file, d) ==
    PlaceAt(MakeFolders(st, dest_dir, SplitOn(strftime(d, sort_format), "/")),
            a, src_file, PathJoin(DestFolder(d), DestName(a, src_file, d)))

\* Lines 380-460: the placement of a file whose date was found.
Place(st, a, src_file, found) ==
    PlaceOn(st, a, src_file, check_for_early_morning_photos(found, a.day_begins))

\* Line 351
NoDateFound(found) == ~IsDateTime(found)

\* Lines 371-460: the hidden file is skipped, any other is placed.
AfterFilter(st1, a, r) ==
    IF st1.raised \/ IsHidden(r.src_file) THEN st1
    ELSE Place(st1, a, r.src_file, r.date)

\* Lines 336-460: the loop body once get_oldest_timestamp has returned r.
SortFile(st, a, r) ==
    IF r.k = "raise" THEN Raise(st)
    ELSE IF NoDateFound(r.date) THEN st
    ELSE AfterFilter(IgnoreFilter(st, a, r.src_file), a, r)

\* Lines 331-460: one pass of the loop over metadata.
LoopBody(st, a, rec) ==
    SortFile(st, a, get_oldest_timestamp(rec, a.groups, a.tags, a.now))

\* os.walk(src_dir, topdown=False): a directory after its subdirectories.
WalkBottomUp == <<D_B, D_A, src_dir>>

\* Line 476 without its test for src_dir.
IsCleanedRootToo(st, dirpath) == \A f \in DOMAIN st.files : Dirname(f) # dirpath

\* Line 476
IsCleaned(st, dirpath) ==
    /\ \A f \in DOMAIN st.files : Dirname(f) # dirpath
    /\ dirpath # src_dir

\* Lines 475-479
RECURSIVE CleanLoop(_, _, _)
CleanLoop(st, a, walk) ==
    IF walk = <<>> \/ st.raised THEN st
    ELSE LET dirpath == Head(walk)
         IN  CleanLoop(IF dirpath \in st.dirs /\ IsCleaned(st, dirpath) /\ ~a.test
                       THEN os_rmdir(st, dirpath)
                       ELSE st,
                       a, Tail(walk))

Cleanup(st, a) == IF a.remove_empty_dirs THEN CleanLoop(st, a, WalkBottomUp) ELSE st

\* ------------------------------------------------- the sortPhotos run

Args ==
    [test |-> test, copy_files |-> copy_files,
     remove_duplicates |-> remove_duplicates, recursive |-> recursive,
     ignore_list |-> ignore_list, remove_ignored_files |-> remove_ignored_files,
     remove_empty_dirs |-> remove_empty_dirs, rename_format |-> rename_format,
     day_begins |-> day_begins, groups |-> additional_groups_to_ignore,
     tags |-> additional_tags_to_ignore, now |-> now]

St == [dirs |-> fs.dirs, files |-> fs.files, test_file_dict |-> test_file_dict,
       placed |-> placements, raised |-> FALSE]

\* The new filesystem, test_file_dict and history after a step that took
\* St to st.
Becomes(st, step) ==
    /\ fs' = [dirs |-> st.dirs, files |-> st.files]
    /\ test_file_dict' = st.test_file_dict
    /\ placements' = st.placed
    /\ prev' = [fs |-> fs, test_file_dict |-> test_file_dict, step |-> step]

AfterLoop(n, records) == IF n < Len(records) THEN "PerFileLoop" ELSE "Cleanup"

\* Lines 279-292: the groups and tags left to ignore once use_only_tags
\* and use_only_groups are looked at.
SetupIgnore(groups, tags, only_tags, only_groups) ==
    IF ~only_tags.none THEN [groups |-> {}, tags |-> {}]
    ELSE IF ~only_groups.none THEN [groups |-> {}, tags |-> tags]
    ELSE [groups |-> groups, tags |-> tags]

\* Lines 327-328: test_file_dict = {} in test mode.
NewLedger(st, a) == IF a.test THEN [st EXCEPT !.test_file_dict = <<>>] ELSE st

\* Lines 272-328: the checks, the tags to ignore, the removal of ignored
\* files, ExifTool, the empty test_file_dict.
Scanning ==
    /\ pc = "Scanning"
    /\ IF ~exists(St, src_dir)
          \/ (recursive /\ remove_ignored_files /\ ignore_list.none)
       THEN /\ pc' = "Raised"
            /\ Becomes(St, "Scanning")
            /\ UNCHANGED metadata
       ELSE LET st == IF recursive /\ remove_ignored_files /\ Len(Filters(Args)) > 0
                      THEN PreDelete(St, Args) ELSE St
                records == get_metadata(st, recursive)
            IN  /\ Becomes(NewLedger(st, Args), "Scanning")
                /\ metadata' = records
                /\ pc' = AfterLoop(0, records)
    /\ LET ignore == IF exists(St, src_dir)
                     THEN SetupIgnore(additional_groups_to_ignore,
                                      additional_tags_to_ignore,
                                      use_only_tags, use_only_groups)
                     ELSE [groups |-> additional_groups_to_ignore,
                           tags |-> additional_tags_to_ignore]
       IN  /\ additional_groups_to_ignore' = ignore.groups
           /\ additional_tags_to_ignore' = ignore.tags
    /\ UNCHANGED <<idx, fs0, argVars, parseVars, selectVars, now, adjustVars,
                   day_begins, useOnlyVars, watchVars, first_run>>

\* Lines 331-466: the loop body on the next record.
PerFileLoop ==
    /\ pc = "PerFileLoop"
    /\ idx < Len(metadata)
    /\ LET st == LoopBody(St, Args, metadata[idx + 1])
       IN  /\ Becomes(st, "PerFileLoop")
           /\ pc' = IF st.raised THEN "Raised" ELSE AfterLoop(idx + 1, metadata)
    /\ idx' = idx + 1
    /\ UNCHANGED <<metadata, fs0, argVars, parseVars, selectVars, policyVars,
                   adjustVars, day_begins, useOnlyVars, watchVars, first_run>>

\* Lines 472-481: the empty directories, then return num_files.
CleanupStep ==
    /\ pc = "Cleanup"
    /\ LET st == Cleanup(St, Args)
       IN  /\ Becomes(st, "Cleanup")
           /\ pc' = IF st.raised THEN "Raised" ELSE "Done"
    /\ UNCHANGED <<metadata, idx, fs0, argVars, parseVars, selectVars, policyVars,
                   adjustVars, day_begins, useOnlyVars, watchVars, first_run>>

Next == Scanning \/ PerFileLoop \/ CleanupStep

\* ------------------------------------------------------ initial states

MaxFiles == 2

File(c, m) == [c |-> c, m |-> m]

\* What each source path may hold.
SlotChoices ==
    <<{File(1, 1), File(4, 1), File(5, 1)},
      {File(3, 1), File(5, 1)},
      {File(3, 1)},
      {File(1, 1), File(2, 1), File(1, 2), File(3, 1)},
      {File(6, 1), File(5, 1)}>>

Slots == 1..Len(SourcePaths)

\* The source trees: at most MaxFiles files.
Populations ==
    {f \in UNION {[S -> UNION {SlotChoices[i] : i \in Slots}] :
                     S \in {T \in SUBSET Slots : Cardinality(T) <= MaxFiles}} :
        \A i \in DOMAIN f : f[i] \in SlotChoices[i]}

SourceFiles(f) ==
    [q \in {SourcePaths[i] : i \in DOMAIN f} |->
        f[CHOOSE i \in DOMAIN f : SourcePaths[i] = q]]

\* 2020-03-01 10:30:00, the folder and the name its photos are sorted to.
Noon == DateTime(Ymd2Ord(2020, 3, 1), 10 * 3600 + 30 * 60)
NoonPath == PathJoin(DestFolder(Noon), N_a)

\* The destination tree before the run: missing, or holding one photo.
DestTrees ==
    {[dirs |-> {}, files |-> <<>>]}
        \cup {[dirs |-> {SubSeq(NoonPath, 1, n) : n \in 1..(Len(NoonPath) - 1)},
               files |-> [q \in {NoonPath} |-> v]] : v \in {File(1, 1), File(3, 1)}}

Trees ==
    {[dirs |-> {}, files |-> <<>>]}
        \cup {[dirs |-> {src_dir, D_A, D_B} \cup d.dirs,
               files |-> [q \in DOMAIN SourceFiles(f) \cup DOMAIN d.files |->
                            IF q \in DOMAIN d.files THEN d.files[q]
                            ELSE SourceFiles(f)[q]]] :
                 f \in Populations, d \in DestTrees}

\* --rename, when given: '%Y%m%d_%H%M'
RenameFormat == <<"%", "Y", "%", "m", "%", "d", "_", "%", "H", "%", "M">>

\* --ignore, when given: '*.db,x.*'
IgnoreList == <<"*", ".", "d", "b", ",", "x", ".", "*">>

\* datetime.now() during the run: 2026-11-05 09:00:00.000001
Clock == [k |-> "datetime", d |-> Ymd2Ord(2026, 11, 5), s |-> 9 * 3600, us |-> 1]

ParseIdle == date_string = <<>> /\ comp = <<>> /\ parsed = None
SelectIdle == data = <<>> /\ oldest = <<>>
AdjustIdle == photo_date = None /\ adjusted = None
UseOnlyIdle == use_only_tags = NoneStr /\ use_only_groups = NoneStr

\* No exit status yet.
NoStatus == "none"

\* No earlier run.
NoRun == [done |-> FALSE, placed |-> <<>>, fs |-> [dirs |-> {}, files |-> <<>>]]

WatchIdle ==
    /\ file_present = <<>> /\ status = NoStatus /\ passes = 0
    /\ first_run = NoRun

Init ==
    /\ pc = "Scanning"
    /\ test \in BOOLEAN
    /\ copy_files \in BOOLEAN
    /\ remove_duplicates \in BOOLEAN
    /\ recursive \in BOOLEAN
    /\ remove_ignored_files \in BOOLEAN
    /\ remove_empty_dirs \in BOOLEAN
    /\ ignore_list \in {NoneStr, Some(IgnoreList)}
    /\ rename_format \in {NoneStr, Some(RenameFormat)}
    /\ day_begins \in {0, 3}
    /\ additional_groups_to_ignore = {G_File}
    /\ additional_tags_to_ignore = {}
    /\ now = Clock
    /\ fs \in Trees
    /\ fs0 = fs
    /\ prev = [fs |-> fs, test_file_dict |-> <<>>, step |-> "call"]
    /\ metadata = <<>>
    /\ idx = 0
    /\ test_file_dict = <<>>
    /\ placements = <<>>
    /\ ParseIdle /\ SelectIdle /\ AdjustIdle /\ UseOnlyIdle /\ WatchIdle

Spec == Init /\ [][Next]_vars

\* ------------------------------------------- sortPhotos called twice

\* datetime.now() before the photos were taken, by the clock of the camera:
\* 2020-02-15 12:00:00.000001
EarlyClock == [k |-> "datetime", d |-> Ymd2Ord(2020, 2, 15), s |-> 12 * 3600, us |-> 1]

TwiceClocks == {EarlyClock, Clock}

InitTwice ==
    /\ pc = "Scanning"
    /\ test \in BOOLEAN
    /\ copy_files = FALSE
    /\ remove_duplicates \in BOOLEAN
    /\ recursive \in BOOLEAN
    /\ remove_ignored_files = FALSE
    /\ remove_empty_dirs \in BOOLEAN
    /\ ignore_list = NoneStr
    /\ rename_format = NoneStr
    /\ day_begins = 0
    /\ additional_groups_to_ignore = {G_File}
    /\ additional_tags_to_ignore = {}
    /\ now \in TwiceClocks
    /\ fs \in Trees
    /\ fs0 = fs
    /\ prev = [fs |-> fs, test_file_dict |-> <<>>, step |-> "call"]
    /\ metadata = <<>>
    /\ idx = 0
    /\ test_file_dict = <<>>
    /\ placements = <<>>
    /\ ParseIdle /\ SelectIdle /\ AdjustIdle /\ UseOnlyIdle /\ WatchIdle

\* Line 222: sortPhotos is entered with the filesystem as it is.
CallSortPhotos ==
    /\ pc' = "Scanning"
    /\ metadata' = <<>>
    /\ idx' = 0
    /\ placements' = <<>>
    /\ fs0' = fs
    /\ prev' = [fs |-> fs, test_file_dict |-> test_file_dict, step |-> "call"]
    /\ UNCHANGED <<fs, test_file_dict>>

\* The same command once more, after the first run has returned; the clock
\* has not gone back.
SecondBatch ==
    /\ pc = "Done"
    /\ ~first_run.done
    /\ first_run' = [done |-> TRUE, placed |-> placements, fs |-> fs]
    /\ now' \in {c \in TwiceClocks : ~DateLt(c, now)}
    /\ CallSortPhotos
    /\ UNCHANGED <<argVars, parseVars, selectVars, additional_groups_to_ignore,
                   additional_tags_to_ignore, adjustVars, day_begins, useOnlyVars,
                   file_present, status, passes>>

NextTwice == Next \/ SecondBatch

SpecTwice == InitTwice /\ [][NextTwice]_vars

\* ------------------------------------------- sortPhotos in test mode,
\* ------------------------------------------- then for real

\* The trees whose destination holds no file.
FreshTrees == {t \in Trees : \A q \in DOMAIN t.files : ~IsUnder(q, dest_dir)}

InitBoth ==
    /\ pc = "Scanning"
    /\ test = TRUE
    /\ copy_files \in BOOLEAN
    /\ remove_duplicates \in BOOLEAN
    /\ recursive \in BOOLEAN
    /\ remove_ignored_files \in BOOLEAN
    /\ remove_empty_dirs \in BOOLEAN
    /\ ignore_list \in {NoneStr, Some(IgnoreList)}
    /\ rename_format \in {NoneStr, Some(RenameFormat)}
    /\ day_begins \in {0, 3}
    /\ additional_groups_to_ignore = {G_File}
    /\ additional_tags_to_ignore = {}
    /\ now = Clock
    /\ fs \in FreshTrees
    /\ fs0 = fs
    /\ prev = [fs |-> fs, test_file_dict |-> <<>>, step |-> "call"]
    /\ metadata = <<>>
    /\ idx = 0
    /\ test_file_dict = <<>>
    /\ placements = <<>>
    /\ ParseIdle /\ SelectIdle /\ AdjustIdle /\ UseOnlyIdle /\ WatchIdle

\* The command of the test run once more without -t, on the files the
\* test run left where they were.
RealBatch ==
    /\ pc = "Done"
    /\ test
    /\ ~first_run.done
    /\ test' = FALSE
    /\ first_run' = [done |-> TRUE, placed |-> placements, fs |-> fs]
    /\ CallSortPhotos
    /\ UNCHANGED <<copy_files, remove_duplicates, recursive, ignore_list,
                   remove_ignored_files, remove_empty_dirs, rename_format,
                   parseVars, selectVars, policyVars, adjustVars, day_begins,
                   useOnlyVars, file_present, status, passes>>

NextBoth == Next \/ RealBatch

SpecBoth == InitBoth /\ [][NextBoth]_vars

\* ------------------------------------------- run_stdin_watcher

MaxPresent == 2
MaxPasses == 2

\* The names a line on stdin may hold: a source file, a file of the
\* destination, a file that is not there.
AnnouncedPaths == {PathJoin(src_dir, N_a), NoonPath, PathJoin(src_dir, <<"gone">>)}

\* The trees the watcher may find: those of a batch, and a destination
\* whose source directory is missing.
WatchTrees ==
    Trees \cup {d \in DestTrees : d.dirs # {}}

InitWatch ==
    /\ pc = "poll"
    /\ file_present = <<>>
    /\ status = NoStatus
    /\ passes = 0
    /\ first_run = NoRun
    /\ test = FALSE
    /\ copy_files = FALSE
    /\ remove_duplicates = TRUE
    /\ recursive \in BOOLEAN
    /\ remove_ignored_files = FALSE
    /\ remove_empty_dirs \in BOOLEAN
    /\ ignore_list = NoneStr
    /\ rename_format = NoneStr
    /\ day_begins = 0
    /\ additional_groups_to_ignore = {G_File}
    /\ additional_tags_to_ignore = {}
    /\ now = Clock
    /\ fs \in WatchTrees
    /\ fs0 = fs
    /\ prev = [fs |-> fs, test_file_dict |-> <<>>, step |-> "start"]
    /\ metadata = <<>>
    /\ idx = 0
    /\ test_file_dict = <<>>
    /\ placements = <<>>
    /\ ParseIdle /\ SelectIdle /\ AdjustIdle /\ UseOnlyIdle

\* Lines 487-494: stdin is readable, and the name on the line is kept when
\* the file exists.
Announce ==
    /\ pc = "poll"
    /\ Len(file_present) < MaxPresent
    /\ \E new_file \in AnnouncedPaths :
           IF exists(St, new_file)
           THEN /\ file_present' = Append(file_present, new_file)
                /\ passes' = 0
           ELSE UNCHANGED <<file_present, passes>>
    /\ prev' = [fs |-> fs, test_file_dict |-> test_file_dict, step |-> "Announce"]
    /\ UNCHANGED <<pc, fs, metadata, idx, test_file_dict, fs0, placements, status,
                   first_run, argVars, parseVars, selectVars, policyVars,
                   adjustVars, day_begins, useOnlyVars>>

\* Lines 495-500: nothing to read for five seconds; run_sortphotos is
\* called when a name has been kept.
IdleTimeout ==
    /\ pc = "poll"
    /\ passes < MaxPasses
    /\ IF Len(file_present) > 0
       THEN /\ CallSortPhotos
            /\ passes' = passes + 1
       ELSE UNCHANGED <<pc, batchVars, passes>>
    /\ UNCHANGED <<file_present, status, first_run, argVars, parseVars,
                   selectVars, policyVars, adjustVars, day_begins, useOnlyVars>>

\* Lines 501-503: run_sortphotos has returned.
PassReturns ==
    /\ pc = "Done"
    /\ file_present' = <<>>
    /\ pc' = "poll"
    /\ prev' = [fs |-> fs, test_file_dict |-> test_file_dict, step |-> "PassReturns"]
    /\ UNCHANGED <<fs, metadata, idx, test_file_dict, fs0, placements, status,
                   passes, first_run, argVars, parseVars, selectVars, policyVars,
                   adjustVars, day_begins, useOnlyVars>>

\* Lines 506-512: the exception run_sortphotos raised is printed, and the
\* loop goes round.
PassRaises ==
    /\ pc = "Raised"
    /\ pc' = "poll"
    /\ prev' = [fs |-> fs, test_file_dict |-> test_file_dict, step |-> "PassRaises"]
    /\ UNCHANGED <<fs, metadata, idx, test_file_dict, fs0, placements,
                   file_present, status, passes, first_run, argVars, parseVars,
                   selectVars, policyVars, adjustVars, day_begins, useOnlyVars>>

\* How the process ends on a KeyboardInterrupt. In the try block of lines
\* 487-503 it is caught at line 504 and sys.exit(0) runs. Once the pass has
\* raised, it arrives either while the exception is still inside the try
\* block or while lines 507-512 print it, where no except clause covers it:
\* the interpreter ends with status 1, or by the signal (130).
InterruptStatus(at) == IF at = "Raised" THEN {0, 1, 130} ELSE {0}

\* Lines 504-505, and an interrupt outside the try block.
Interrupt ==
    /\ pc \in {"poll", "Scanning", "PerFileLoop", "Cleanup", "Done", "Raised"}
    /\ pc' = "Exited"
    /\ status' \in InterruptStatus(pc)
    /\ prev' = [fs |-> fs, test_file_dict |-> test_file_dict, step |-> "Interrupt"]
    /\ UNCHANGED <<fs, metadata, idx, test_file_dict, fs0, placements,
                   file_present, passes, first_run, argVars, parseVars,
                   selectVars, policyVars, adjustVars, day_begins, useOnlyVars>>

NextWatch ==
    \/ Announce \/ IdleTimeout \/ Next \/ PassReturns \/ PassRaises \/ Interrupt

SpecWatch == InitWatch /\ [][NextWatch]_vars

\* ------------------------------------------- parse_date_exif on its own

\* The values written from components: a date, a time and a zone suffix.
Comps ==
    [year : {2020}, month : {1, 3}, day : {1, 15}, hour : {0, 1, 10, 23},
     minute : {0, 30}, second : {0}, sign : {"", "Z"}, tzh : {0}, tzm : {0}]
        \cup
    [year : {2020}, month : {1, 3}, day : {1, 15}, hour : {0, 1, 10, 23},
     minute : {0, 30}, second : {0}, sign : {"+", "-"}, tzh : {0, 2, 5},
     tzm : {0, 30}]

NoComp ==
    [year |-> 0, month |-> 0, day |-> 0, hour |-> 0, minute |-> 0, second |-> 0,
     sign |-> "?", tzh |-> 0, tzm |-> 0]

\* Other values a tag may hold.
OtherValues ==
    {FmtDate(2020, 1, 15),
     FmtDate(2020, 1, 15) \o <<" ">> \o Fmt2(10) \o <<":">> \o Fmt2(30),
     FmtDate(0, 0, 0) \o <<" ">> \o FmtTime(0, 0, 0),
     FmtDate(2020, 13, 1) \o <<" ">> \o FmtTime(10, 0, 0),
     FmtDate(2020, 2, 30) \o <<" ">> \o FmtTime(10, 0, 0),
     FmtDate(2020, 1, 15) \o <<" ">> \o FmtTime(10, 30, 0) \o <<".", "5", "5">>,
     FmtDate(2020, 1, 15) \o <<" ">> \o FmtTime(10, 30, 0) \o <<"+", "0", "2">>,
     FmtTime(10, 30, 0),
     <<"1", "0", ".", "5">>,
     <<>>,
     <<" ", " ">>,
     <<"2", "0", "2", "0", ":", "a", "b", ":", "0", "1">>,
     <<"2", "0", "2", "0", ":", ":", "0", "1">>,
     FmtDate(2020, 1, 15) \o <<" ", "x", "x", ":", "3", "0", ":", "0", "0">>,
     FmtDate(2020, 1, 15) \o <<" ">> \o FmtTime(10, 30, 0)
         \o <<"+", "0", "a", ":", "0", "0">>}

BatchIdle ==
    /\ test = FALSE /\ copy_files = FALSE /\ remove_duplicates = TRUE
    /\ recursive = FALSE /\ ignore_list = NoneStr /\ remove_ignored_files = FALSE
    /\ remove_empty_dirs = FALSE /\ rename_format = NoneStr
    /\ fs = [dirs |-> {}, files |-> <<>>]
    /\ fs0 = fs
    /\ prev = [fs |-> fs, test_file_dict |-> <<>>, step |-> "call"]
    /\ metadata = <<>> /\ idx = 0 /\ test_file_dict = <<>> /\ placements = <<>>
    /\ WatchIdle

PolicyIdle ==
    /\ additional_groups_to_ignore = {G_File}
    /\ additional_tags_to_ignore = {}
    /\ now = Clock
    /\ UseOnlyIdle

InitParse ==
    /\ pc = "parse"
    /\ \/ comp \in Comps /\ date_string = FmtExif(comp)
       \/ comp = NoComp /\ date_string \in OtherValues
    /\ parsed = None
    /\ SelectIdle /\ AdjustIdle /\ PolicyIdle /\ BatchIdle /\ day_begins = 0

ParseCall ==
    /\ pc = "parse"
    /\ parsed' = parse_date_exif(date_string)
    /\ pc' = "parsed"
    /\ UNCHANGED <<date_string, comp, selectVars, policyVars, adjustVars,
                   day_begins, argVars, batchVars, useOnlyVars, watchVars,
                   first_run>>

NextParse == ParseCall

SpecParse == InitParse /\ [][NextParse]_vars

\* -------------------------- check_for_early_morning_photos on its own

AdjustDates ==
    {DateTime(Ymd2Ord(ymd[1], ymd[2], ymd[3]), h * 3600 + mi * 60 + sec) :
        ymd \in {<<2020, 1, 1>>, <<2020, 3, 1>>, <<2021, 3, 1>>, <<2020, 1, 15>>,
                 <<2020, 12, 31>>},
        h \in 0..23, mi \in {0, 59}, sec \in {0, 59}}

InitAdjust ==
    /\ pc = "adjust"
    /\ photo_date \in AdjustDates
    /\ day_begins \in 0..23
    /\ adjusted = None
    /\ ParseIdle /\ SelectIdle /\ PolicyIdle /\ BatchIdle

AdjustCall ==
    /\ pc = "adjust"
    /\ adjusted' = check_for_early_morning_photos(photo_date, day_begins)
    /\ pc' = "adjusted"
    /\ UNCHANGED <<photo_date, day_begins, parseVars, selectVars, policyVars,
                   argVars, batchVars, useOnlyVars, watchVars,
                   first_run>>

NextAdjust == AdjustCall

SpecAdjust == InitAdjust /\ [][NextAdjust]_vars

\* --------------------------------------- get_oldest_timestamp on its own

K_QtModify ==
    <<"Q", "u", "i", "c", "k", "T", "i", "m", "e", ":", "M", "o", "d", "i", "f", "y",
      "D", "a", "t", "e">>
K_GpsStamp ==
    <<"E", "X", "I", "F", ":", "G", "P", "S", "D", "a", "t", "e", "S", "t", "a", "m", "p">>
K_IccDate ==
    <<"I", "C", "C", "_", "P", "r", "o", "f", "i", "l", "e", ":", "P", "r", "o", "f",
      "i", "l", "e", "D", "a", "t", "e", "T", "i", "m", "e">>

V_2019 == FmtDate(2019, 1, 1) \o <<" ">> \o FmtTime(0, 0, 0)
V_Apr == FmtDate(2020, 4, 1) \o <<" ">> \o FmtTime(9, 0, 0)
V_May == FmtDate(2020, 5, 1) \o <<" ">> \o FmtTime(10, 0, 0)
V_2031 == FmtDate(2031, 1, 1) \o <<" ">> \o FmtTime(0, 0, 0)
V_Zero == FmtDate(0, 0, 0) \o <<" ">> \o FmtTime(0, 0, 0)

\* The tags a record may hold, in key order, each with the values it may
\* have; a tag may also be missing.
TagChoices ==
    <<[key |-> K_CreateDate,
       values |-> {Str(V_Apr), Str(V_May), Str(V_2031), Str(V_Zero),
                   List(<<V_Apr, V_2019>>)}],
      [key |-> K_QtModify,
       values |-> {Str(V_Apr), Str(V_May), Str(V_2031), Str(V_Zero)}],
      [key |-> K_FileModify, values |-> {Str(V_2019), Str(V_May)}],
      [key |-> K_GpsStamp, values |-> {Str(V_2019), Str(V_May)}],
      [key |-> K_HistoryWhen, values |-> {Str(V_2019)}],
      [key |-> K_IccDate, values |-> {Str(V_2019)}]>>

\* The records over tags n.., as sequences of entries.
RECURSIVE RecordTails(_)
RecordTails(n) ==
    IF n > Len(TagChoices) THEN {<<>>}
    ELSE LET rest == RecordTails(n + 1)
         IN  rest \cup {<<Entry(TagChoices[n].key, v)>> \o r :
                           v \in TagChoices[n].values, r \in rest}

SelectRecords ==
    {<<Entry(K_SourceFile, Str(PathJoin(src_dir, N_a)))>> \o r : r \in RecordTails(1)}

\* datetime.now(): after every date but one, between the dates, and at the
\* very second of one of them.
Clocks ==
    {Clock,
     [k |-> "datetime", d |-> Ymd2Ord(2020, 4, 15), s |-> 12 * 3600, us |-> 1],
     [k |-> "datetime", d |-> Ymd2Ord(2020, 5, 1), s |-> 10 * 3600, us |-> 0]}

InitSelect ==
    /\ pc = "select"
    /\ data \in SelectRecords
    /\ additional_groups_to_ignore \in {{}, {G_File}}
    /\ additional_tags_to_ignore \in {{}, {K_CreateDate}}
    /\ now \in Clocks
    /\ oldest = <<>>
    /\ ParseIdle /\ AdjustIdle /\ BatchIdle /\ UseOnlyIdle /\ day_begins = 0

SelectCall ==
    /\ pc = "select"
    /\ oldest' = get_oldest_timestamp(data, additional_groups_to_ignore,
                                      additional_tags_to_ignore, now)
    /\ pc' = "selected"
    /\ UNCHANGED <<data, policyVars, parseVars, adjustVars, day_begins, argVars,
                   batchVars, useOnlyVars, watchVars,
                   first_run>>

NextSelect == SelectCall

SpecSelect == InitSelect /\ [][NextSelect]_vars

\* ------------------- the tags to ignore as sortPhotos sets them up, then
\* ------------------- get_oldest_timestamp

\* --use-only-tags and --use-only-groups, when given.
OnlyTags == <<K_CreateDate>>
OnlyGroups == << <<"E", "X", "I", "F">> >>

\* Lines 282-287: ExifTool is asked for the tags of use_only_tags, or for
\* the time tags of the groups of use_only_groups, and returns no other.
Requested(key, only_tags, only_groups) ==
    \/ key = K_SourceFile
    \/ IF ~only_tags.none THEN \E i \in 1..Len(only_tags.s) : only_tags.s[i] = key
       ELSE IF ~only_groups.none
            THEN \E i \in 1..Len(only_groups.s) :
                     only_groups.s[i] = Head(SplitOn(key, ":"))
            ELSE TRUE

InitSetup ==
    /\ pc = "setup"
    /\ use_only_tags \in {NoneStr, Some(OnlyTags)}
    /\ use_only_groups \in {NoneStr, Some(OnlyGroups)}
    /\ data \in {r \in SelectRecords :
                    \A i \in 1..Len(r) :
                        Requested(r[i].key, use_only_tags, use_only_groups)}
    /\ additional_groups_to_ignore \in {{}, {G_File}}
    /\ additional_tags_to_ignore \in {{}, {K_CreateDate}}
    /\ now = Clock
    /\ oldest = <<>>
    /\ ParseIdle /\ AdjustIdle /\ BatchIdle /\ day_begins = 0

\* Lines 279-292
SetupCall ==
    /\ pc = "setup"
    /\ LET ignore == SetupIgnore(additional_groups_to_ignore,
                                 additional_tags_to_ignore,
                                 use_only_tags, use_only_groups)
       IN  /\ additional_groups_to_ignore' = ignore.groups
           /\ additional_tags_to_ignore' = ignore.tags
    /\ pc' = "select"
    /\ UNCHANGED <<data, oldest, now, parseVars, adjustVars, day_begins, argVars,
                   batchVars, useOnlyVars, watchVars, first_run>>

NextSetup == SetupCall \/ SelectCall

SpecSetup == InitSetup /\ [][NextSetup]_vars

\* ================================================================ claims

\* ---- the timestamp parser

\* The value as written with its local time tzh:tzm earlier and suffix Z.
EarlierZ(c) ==
    LET local == DateTime(Ymd2Ord(c.year, c.month, c.day),
                          c.hour * 3600 + c.minute * 60 + c.second)
        e     == AddSeconds(local, 0 - (c.tzh * 3600 + c.tzm * 60))
        ymd   == Ord2Ymd(e.d)
    IN  [year |-> ymd.year, month |-> ymd.month, day |-> ymd.day,
         hour |-> e.s \div 3600, minute |-> (e.s % 3600) \div 60,
         second |-> e.s % 60, sign |-> "Z", tzh |-> 0, tzm |-> 0]

\* C6: a value with the suffix +HH:MM parses to the same point in time as
\* the value whose local time is HH:MM earlier with the suffix Z.
C6_SameInstant ==
    (pc = "parsed" /\ comp.sign = "+")
        => parsed = parse_date_exif(FmtExif(EarlierZ(comp)))

\* C15: parse_date_exif returns a datetime or None for every value; it
\* never raises.
C15_Total == pc = "parsed" => parsed # Raised

\* The local date and time a value was written with.
LocalOf(c) ==
    DateTime(Ymd2Ord(c.year, c.month, c.day),
             c.hour * 3600 + c.minute * 60 + c.second)

\* C17: a value with the suffix +HH:MM parses to its local time plus HH
\* hours and MM minutes, one with the suffix -HH:MM to its local time minus
\* HH hours and MM minutes, one with Z or without a suffix to its local time.
C17_Offsets ==
    (pc = "parsed" /\ comp # NoComp) =>
        parsed = CASE comp.sign = "+" ->
                          AddSeconds(LocalOf(comp), comp.tzh * 3600 + comp.tzm * 60)
                   [] comp.sign = "-" ->
                          AddSeconds(LocalOf(comp),
                                     0 - (comp.tzh * 3600 + comp.tzm * 60))
                   [] OTHER -> LocalOf(comp)

\* ---- the day-boundary adjustment

\* The calendar day before a year, month, day.
DayBefore(ymd) ==
    IF ymd.day > 1 THEN [ymd EXCEPT !.day = @ - 1]
    ELSE IF ymd.month > 1
    THEN [year |-> ymd.year, month |-> ymd.month - 1,
          day |-> DaysInMonth(ymd.year, ymd.month - 1)]
    ELSE [year |-> ymd.year - 1, month |-> 12, day |-> 31]

\* C8: a timestamp whose hour is below day_begins comes back (hour + 1)
\* hours earlier, on the previous calendar day; any other timestamp, and
\* every timestamp when day_begins is 0, comes back unchanged.
C8_Adjust ==
    pc = "adjusted" =>
        /\ IF Hour(photo_date) < day_begins
           THEN /\ IsDateTime(adjusted)
                /\ (adjusted.d - photo_date.d) * 86400 + (adjusted.s - photo_date.s)
                       = 0 - (Hour(photo_date) + 1) * 3600
                /\ Ord2Ymd(adjusted.d) = DayBefore(Ord2Ymd(photo_date.d))
           ELSE adjusted = photo_date
        /\ day_begins = 0 => adjusted = photo_date

\* A photo of the small hours of 2020-01-01 went back to 2019-12-31.
C8_Witness ==
    /\ pc = "adjusted"
    /\ Hour(photo_date) < day_begins
    /\ Ord2Ymd(photo_date.d) = [year |-> 2020, month |-> 1, day |-> 1]
    /\ Ord2Ymd(adjusted.d) = [year |-> 2019, month |-> 12, day |-> 31]

\* ---- the oldest-timestamp selector

GroupOf(key) == SplitOn(key, ":")[1]

\* The tags the selector is to leave out.
Excluded(key, groups, tags) ==
    \/ key = K_SourceFile
    \/ key = K_HistoryWhen
    \/ GroupOf(key) = G_ICC_Profile
    \/ GroupOf(key) \in groups
    \/ key \in tags
    \/ Contains(key, GPS)

\* The timestamps the tags of a record that are not left out parse to.
ValidDates(rec, groups, tags) ==
    {v \in {parse_date_exif(rec[i].value.items[1]) :
               i \in {j \in 1..Len(rec) : ~Excluded(rec[j].key, groups, tags)}} :
        IsDateTime(v)}

Earliest(dates) == CHOOSE x \in dates : \A y \in dates : ~DateLt(y, x)

\* C5: the selector returns the earliest of the timestamps that parse
\* among the tags not left out, whatever they are, and no date exactly when
\* none of them parses.
C5_Earliest ==
    (pc = "selected" /\ oldest.k = "return") =>
        LET dates == ValidDates(data, additional_groups_to_ignore,
                                additional_tags_to_ignore)
        IN  IF dates = {} THEN oldest.date = None
            ELSE oldest.date = Earliest(dates)

\* The record without its excluded tags, and with another SourceFile.
WithoutExcluded(rec, groups, tags) ==
    <<Entry(K_SourceFile, Str(PathJoin(D_A, N_x)))>>
        \o SelectSeq(rec, LAMBDA e : ~Excluded(e.key, groups, tags))

\* C7: records that differ only in excluded tags get the same date and the
\* same tag names: each record gets what the record without any of its
\* excluded tags gets.
C7_ExcludedNoInfluence ==
    pc = "selected" =>
        LET bare == get_oldest_timestamp(
                        WithoutExcluded(data, additional_groups_to_ignore,
                                        additional_tags_to_ignore),
                        additional_groups_to_ignore, additional_tags_to_ignore, now)
        IN  /\ oldest.k = bare.k
            /\ oldest.date = bare.date
            /\ oldest.keys = bare.keys

\* A GPS tag and an ignored tag held the earliest date of the record, and
\* the date returned is that of another tag.
C7_Witness ==
    /\ pc = "selected"
    /\ additional_tags_to_ignore = {K_CreateDate}
    /\ \E i \in 1..Len(data) :
           data[i].key = K_GpsStamp /\ data[i].value = Str(V_2019)
    /\ \E i \in 1..Len(data) :
           data[i].key = K_CreateDate /\ data[i].value = List(<<V_Apr, V_2019>>)
    /\ oldest.date = parse_date_exif(V_May)
    /\ oldest.keys = <<K_QtModify>>

\* The names of the tags not left out whose value parses to the date, in
\* the order of the record.
TiedKeys(rec, groups, tags, date) ==
    LET tied == SelectSeq(rec, LAMBDA e :
                    /\ ~Excluded(e.key, groups, tags)
                    /\ parse_date_exif(e.value.items[1]) = date)
    IN  [i \in 1..Len(tied) |-> tied[i].key]

\* C12: the tag names returned are those of the tags not left out whose
\* timestamp is the date returned, each once and in the order of the
\* record, and there are none when no date is returned.
C12_TagNames ==
    (pc = "selected" /\ oldest.k = "return") =>
        oldest.keys = IF oldest.date = None THEN <<>>
                      ELSE TiedKeys(data, additional_groups_to_ignore,
                                    additional_tags_to_ignore, oldest.date)

\* C16: when use_only_tags or use_only_groups is given, the selector returns
\* for every record what it returns with no group and no tag to ignore
\* beyond its own.
C16_OnlyBypasses ==
    (pc = "selected" /\ (~use_only_tags.none \/ ~use_only_groups.none))
        => oldest = get_oldest_timestamp(data, {}, {}, now)

\* ---- the batch

\* The record the last step of the loop worked on, and what the selector
\* found in it.
LastRecord == metadata[idx]
LastFound ==
    get_oldest_timestamp(LastRecord, additional_groups_to_ignore,
                         additional_tags_to_ignore, now)
LoopStepDone == prev.step = "PerFileLoop" /\ idx >= 1

\* The name of the file matches an entry of the ignore list.
OnIgnoreList(src_file) ==
    ~ignore_list.none /\ MatchesAny(Basename(src_file), Filters(Args))

\* C1: after the loop's step on a record with a date whose file name
\* matches the ignore list, the file is deleted (only when
\* remove_ignored_files is set) or where it was, nothing else has changed,
\* no destination was planned, and the loop goes on.
C1_IgnoredNeverPlaced ==
    (/\ LoopStepDone
     /\ LastFound.k = "return"
     /\ IsDateTime(LastFound.date)
     /\ OnIgnoreList(LastFound.src_file))
        => /\ pc # "Raised"
           /\ fs.dirs = prev.fs.dirs
           /\ test_file_dict = prev.test_file_dict
           /\ \/ fs.files = prev.fs.files
              \/ /\ remove_ignored_files
                 /\ fs.files = Del(prev.fs.files, LastFound.src_file)

\* C2: in test mode the filesystem is, at every point of the run, what it
\* was before the run.
C2_TestModeFrame == test => fs = fs0

\* The files sorted so far that were planned for the same first path as
\* the j-th one, before it.
SamePathBefore(j) ==
    {i \in 1..(j - 1) : placements[i].first = placements[j].first}

ContentOf(j) == fs0.files[placements[j].src_file].c

\* C3: in a destination that held no file, source files of pairwise
\* different content planned for one path root+ext end at different paths:
\* the first at root+ext, the n-th after it at root_n+ext.
C3_Suffixes ==
    (\A q \in DOMAIN fs0.files : ~IsUnder(q, dest_dir)) =>
        \A j \in 1..Len(placements) :
            LET same == SamePathBefore(j) \cup {j}
            IN  (\A i, k \in same : i # k => ContentOf(i) # ContentOf(k))
                    => placements[j].dest_file =
                          IF SamePathBefore(j) = {} THEN placements[j].first
                          ELSE Suffixed(placements[j].first,
                                        Cardinality(SamePathBefore(j)))

\* The path the loop first plans for the file of the last record.
LastFirst ==
    LET d == check_for_early_morning_photos(LastFound.date, day_begins)
    IN  PathJoin(DestFolder(d), DestName(Args, LastFound.src_file, d))

\* The last step sorted, for real and with remove_duplicates, a file that
\* held the bytes of the file at its destination path.
C4_Case ==
    /\ LoopStepDone
    /\ ~test
    /\ remove_duplicates
    /\ LET r == LastFound
       IN  /\ r.k = "return"
           /\ IsDateTime(r.date)
           /\ ~OnIgnoreList(r.src_file)
           /\ ~IsHidden(r.src_file)
           /\ LET first == LastFirst
              IN  /\ isfile(prev.fs, first)
                  /\ prev.fs.files[first].c = prev.fs.files[r.src_file].c

\* C4: with remove_duplicates, a file with the same bytes as the file at
\* its destination path makes no new file: when moving, the source is gone
\* and the destination holds the bytes it held; when copying, the
\* filesystem is as it was.
C4_IdenticalDuplicate ==
    C4_Case =>
        /\ pc # "Raised"
        /\ fs.dirs = prev.fs.dirs
        /\ isfile(fs, LastFirst)
        /\ fs.files[LastFirst].c = prev.fs.files[LastFirst].c
        /\ IF copy_files THEN fs = prev.fs
           ELSE DOMAIN fs.files = DOMAIN prev.fs.files \ {LastFound.src_file}

\* A duplicate with another modification time than the file at its
\* destination was moved onto it.
C4_Witness ==
    /\ C4_Case
    /\ ~copy_files
    /\ prev.fs.files[LastFirst].m # prev.fs.files[LastFound.src_file].m
    /\ ~isfile(fs, LastFound.src_file)
    /\ ~isfile(fs, Suffixed(LastFirst, 1))

\* The last step was on a record without a date, or on a hidden file with
\* a date and a name the ignore list does not match.
C9_Case ==
    /\ LoopStepDone
    /\ LET r == LastFound
       IN  /\ r.k = "return"
           /\ \/ r.date = None
              \/ /\ IsDateTime(r.date)
                 /\ Head(Basename(r.src_file)) = "."
                 /\ ~OnIgnoreList(r.src_file)

\* C9: the loop's step on a record without a date, or on a hidden file
\* with a date that the ignore list does not match, changes no file, no
\* directory and no planned destination, and the loop goes on.
C9_Untouched ==
    C9_Case =>
        /\ fs = prev.fs
        /\ test_file_dict = prev.test_file_dict
        /\ pc # "Raised"

\* A file without a date, on the ignore list of a real run that removes
\* ignored files, is still there after its step.
C9_Witness ==
    /\ C9_Case
    /\ LastFound.date = None
    /\ OnIgnoreList(LastFound.src_file)
    /\ remove_ignored_files
    /\ ~test
    /\ isfile(fs, LastFound.src_file)

\* C10: the cleanup leaves src_dir and every file in place; in test mode,
\* and without remove_empty_dirs, it leaves every directory in place.
C10_Cleanup ==
    prev.step = "Cleanup" =>
        /\ src_dir \in prev.fs.dirs => src_dir \in fs.dirs
        /\ fs.files = prev.fs.files
        /\ (test \/ ~remove_empty_dirs) => fs.dirs = prev.fs.dirs

\* A real run with remove_empty_dirs moved every file out of src_dir; its
\* cleanup removed the subdirectories and src_dir is still there.
C10_Witness ==
    /\ prev.step = "Cleanup"
    /\ pc = "Done"
    /\ ~test
    /\ remove_empty_dirs
    /\ \E q \in DOMAIN fs0.files : IsUnder(q, D_A)
    /\ \A q \in DOMAIN fs.files : ~IsUnder(q, src_dir)
    /\ D_A \notin fs.dirs
    /\ src_dir \in fs.dirs

\* C22: the cleanup of a real run with remove_empty_dirs returns; a
\* directory it removed held no file and none of the directories it held
\* remains, and one that still holds a directory with files is left in
\* place.
C22_CleanupDone ==
    (prev.step = "Cleanup" /\ ~test /\ remove_empty_dirs) =>
        /\ pc = "Done"
        /\ \A d \in prev.fs.dirs \ fs.dirs :
               \A q \in fs.dirs \cup DOMAIN prev.fs.files : ~IsUnder(q, d)

\* What the selector finds for the j-th file sorted.
FoundFor(j) ==
    get_oldest_timestamp(
        <<Entry(K_SourceFile, Str(placements[j].src_file))>>
            \o TagsOf(fs0.files[placements[j].src_file].c),
        additional_groups_to_ignore, additional_tags_to_ignore, now)

\* C19: the folder of a sorted file is that of its date as moved by
\* day_begins, and its name under a rename format is written from the date
\* that was found, not moved.
C19_NameFromCapture ==
    \A j \in 1..Len(placements) :
        placements[j].first =
            PathJoin(DestFolder(check_for_early_morning_photos(FoundFor(j).date,
                                                               day_begins)),
                     DestName(Args, placements[j].src_file, FoundFor(j).date))

\* C20: in a real run every step leaves each file of the destination tree
\* at its path with the bytes it held.
C20_NoLoss ==
    ~test =>
        \A q \in DOMAIN prev.fs.files :
            IsUnder(q, dest_dir)
                => /\ isfile(fs, q)
                   /\ fs.files[q].c = prev.fs.files[q].c

\* C18: unless recursive, remove_ignored_files and an ignore list are all
\* given, the scan of an existing src_dir removes no file and goes on to
\* the records without raising.
C18_PreDelete ==
    (/\ prev.step = "Scanning"
     /\ exists(prev.fs, src_dir)
     /\ ~(recursive /\ remove_ignored_files /\ ~ignore_list.none))
        => fs = prev.fs /\ pc # "Raised"

\* C11: a second batch in test mode plans for every file the destination
\* the first planned, and a second batch that moves for real leaves the
\* source and the destination as the first left them.
C11_Idempotent ==
    (pc = "Done" /\ first_run.done) =>
        /\ test => placements = first_run.placed
        /\ (~test /\ ~copy_files) => fs = first_run.fs

\* ---- the watcher

\* C13: a pass runs only with a name kept since the last pass that
\* returned, after a pass that returned no name is kept, and no more than
\* one pass is started after an announcement.
C13_OnePass ==
    /\ pc \in {"Scanning", "PerFileLoop", "Cleanup"} => file_present # <<>>
    /\ prev.step = "PassReturns" => file_present = <<>>
    /\ passes <= 1

\* C14: after an exception of a pass the loop polls again, and the process
\* exits only on an interrupt, with status 0.
C14_Survives ==
    /\ prev.step = "PassRaises" => pc = "poll"
    /\ pc = "Exited" => prev.step = "Interrupt" /\ status = 0

\* ---- the test run and the real run

\* The files sorted and where to.
Destinations(placed) ==
    [j \in 1..Len(placed) |->
        [src_file |-> placed[j].src_file, dest_file |-> placed[j].dest_file]]

\* C21: from a destination that holds no file, the real run ends having
\* placed each file, or found its duplicate, at the path the test run
\* recorded for it.
C21_LedgerFaithful ==
    (first_run.done /\ pc \in {"Done", "Raised"})
        => Destinations(placements) = Destinations(first_run.placed)

====
